---- MODULE Spec2Model ----
(***************************************************************************)
(* Model of the plane-alignment viewer: ClipPlane (contour extraction,     *)
(* segment stitching, contour/plane intersection), Utils (rotation angles, *)
(* rotation animation) and the App component that drives them.             *)
(*                                                                         *)
(* Numbers.  All geometry is exact.  A Vector3 is a record                 *)
(*     [n |-> <<nx, ny, nz>>, d |-> d, k |-> k]     (d > 0, k > 0)          *)
(* standing for x = nx/d, y = ny/(d*sqrt(k)), z = nz/(d*sqrt(k)).          *)
(* Mesh vertices are lattice points (d = 1, k = 1); line/plane crossings   *)
(* are rational (k = 1); only a rotation about the x axis makes k > 1.     *)
(* An angle is a record [s, c, k] standing for atan2(s*sqrt(k), c).        *)
(***************************************************************************)
EXTENDS Integers, Sequences, FiniteSets, TLC

----------------------------------------------------------------------------
(* Arithmetic helpers *)

Abs(a) == IF a < 0 THEN -a ELSE a

Sign(a) == IF a < 0 THEN -1 ELSE IF a > 0 THEN 1 ELSE 0

RECURSIVE Gcd(_, _)
Gcd(a, b) == IF b = 0 THEN a ELSE Gcd(b, a % b)

Gcd4(a, b, c, e) == Gcd(Gcd(Abs(a), Abs(b)), Gcd(Abs(c), Abs(e)))

\* A value that may be absent (null or undefined) is a sequence of length at
\* most one: <<>> when absent, <<v>> when it is v.
Null == <<>>

Undefined == <<>>

Some(v) == <<v>>

IsSome(o) == Len(o) = 1

TheValue(o) == o[1]

----------------------------------------------------------------------------
(* THREE.Vector3 *)

\* A vector in lowest terms with a positive denominator.
Reduce(nx, ny, nz, d) ==
    LET g == Gcd4(nx, ny, nz, d)
        sg == IF d < 0 THEN -g ELSE g
    IN  [n |-> <<nx \div sg, ny \div sg, nz \div sg>>, d |-> d \div sg, k |-> 1]

\* new THREE.Vector3(x, y, z) on the lattice
V(x, y, z) == [n |-> <<x, y, z>>, d |-> 1, k |-> 1]

Dot3(a, b) == a[1] * b[1] + a[2] * b[2] + a[3] * b[3]

\* Numerator of |a - b|^2 over the denominator (a.d * b.d)^2 (unrotated vectors).
DistSqNum(a, b) ==
    LET dx == a.n[1] * b.d - b.n[1] * a.d
        dy == a.n[2] * b.d - b.n[2] * a.d
        dz == a.n[3] * b.d - b.n[3] * a.d
    IN  dx * dx + dy * dy + dz * dz

\* a.distanceTo(b) < 1 / tolInv.  With N = DistSqNum and D = a.d * b.d this is
\* tolInv^2 * N < D^2; for N >= 1 it needs D > tolInv, so the product is only
\* formed then.
DistanceLessThan(a, b, tolInv) ==
    LET N == DistSqNum(a, b)
        D == a.d * b.d
    IN  \/ N = 0
        \/ /\ D > tolInv
           /\ tolInv * tolInv * N < D * D

\* v.applyMatrix4(m) for a matrix m that is a translation by the lattice vector t
Translate(v, t) ==
    Reduce(v.n[1] + t[1] * v.d, v.n[2] + t[2] * v.d, v.n[3] + t[3] * v.d, v.d)

Negate3(t) == <<-t[1], -t[2], -t[3]>>

----------------------------------------------------------------------------
(* THREE.Plane: normal . p + constant = 0.  Normals are lattice vectors and *)
(* are not normalised: every distance below is the true distance times a    *)
(* positive factor, which changes neither its sign nor a crossing point.    *)

\* plane.setFromNormalAndCoplanarPoint(normal, point), point on the lattice
SetFromNormalAndCoplanarPoint(normal, point) ==
    [normal |-> normal, constant |-> -Dot3(normal, point)]

\* plane.distanceToPoint(p) times p.d (> 0)
DistanceToPoint(plane, p) == Dot3(plane.normal, p.n) + plane.constant * p.d

\* plane.applyMatrix4(m) for a translation m by the lattice vector t
PlaneApplyTranslation(plane, t) ==
    [normal |-> plane.normal, constant |-> plane.constant - Dot3(plane.normal, t)]

\* Variant of IntersectLine that reports no point when the line only touches the
\* plane at its start (crossing parameter 0).
IntersectLineOpenStart(plane, start, end) ==
    LET ds == DistanceToPoint(plane, start)
        de == DistanceToPoint(plane, end)
        denominator == de * start.d - ds * end.d
        tn == -(ds * end.d) * Sign(denominator)
        td == Abs(denominator)
    IN  IF denominator = 0
        THEN IF ds = 0 THEN Some(start) ELSE Null
        ELSE IF tn <= 0 \/ tn > td
        THEN Null
        ELSE Some(Reduce(
               start.n[1] * end.d * td + (end.n[1] * start.d - start.n[1] * end.d) * tn,
               start.n[2] * end.d * td + (end.n[2] * start.d - start.n[2] * end.d) * tn,
               start.n[3] * end.d * td + (end.n[3] * start.d - start.n[3] * end.d) * tn,
               start.d * end.d * td))

\* plane.intersectLine(Line3(start, end)): the crossing point, or Null.
\* A line lying in the plane yields its start point; a parallel line off the
\* plane, or a crossing parameter outside [0, 1], yields Null.
IntersectLine(plane, start, end) ==
    LET ds == DistanceToPoint(plane, start)
        de == DistanceToPoint(plane, end)
        \* normal . (end - start), times start.d * end.d
        denominator == de * start.d - ds * end.d
        \* t = tn / td with td > 0
        tn == -(ds * end.d) * Sign(denominator)
        td == Abs(denominator)
    IN  IF denominator = 0
        THEN IF ds = 0 THEN Some(start) ELSE Null
        ELSE IF tn < 0 \/ tn > td
        THEN Null
        ELSE Some(Reduce(
               start.n[1] * end.d * td + (end.n[1] * start.d - start.n[1] * end.d) * tn,
               start.n[2] * end.d * td + (end.n[2] * start.d - start.n[2] * end.d) * tn,
               start.n[3] * end.d * td + (end.n[3] * start.d - start.n[3] * end.d) * tn,
               start.d * end.d * td))

----------------------------------------------------------------------------
(* ClipPlane.stitchSegments *)

\* tolerance = 1e-6, as its inverse
StitchTolInv == 1000000

\* samePoint(a, b): a.distanceTo(b) < tolerance
SamePoint(a, b) == DistanceLessThan(a, b, StitchTolInv)

Last(q) == q[Len(q)]

\* One step of the inner loop, for segment j: st = [polyline, used, extended],
\* and passes, the number of times the while body has been entered.
StitchTry(segments, st, j) ==
    LET polyline == st.polyline
        sj == segments[j]
        take(pl) == [polyline |-> pl,
                     used |-> [st.used EXCEPT ![j] = TRUE],
                     extended |-> TRUE,
                     passes |-> st.passes]
    IN  IF st.used[j] THEN st
        ELSE IF SamePoint(Last(polyline), sj.start)
        THEN take(Append(polyline, sj.end))
        ELSE IF SamePoint(Last(polyline), sj.end)
        THEN take(Append(polyline, sj.start))
        ELSE IF SamePoint(polyline[1], sj.end)
        THEN take(<<sj.start>> \o polyline)
        ELSE IF SamePoint(polyline[1], sj.start)
        THEN take(<<sj.end>> \o polyline)
        ELSE st

\* for (let j = 0; j < segments.length; j++) { ... }
RECURSIVE StitchScan(_, _, _)
StitchScan(segments, st, j) ==
    IF j > Len(segments) THEN st
    ELSE StitchScan(segments, StitchTry(segments, st, j), j + 1)

\* Variant of StitchGrow that scans the segments once instead of to a fixpoint.
StitchGrowOnce(segments, st) ==
    StitchScan(segments, [st EXCEPT !.extended = FALSE, !.passes = @ + 1], 1)

\* while (extended) { extended = false; <scan> }
RECURSIVE StitchGrow(_, _)
StitchGrow(segments, st) ==
    LET pass == StitchScan(segments, [st EXCEPT !.extended = FALSE, !.passes = @ + 1], 1)
    IN  IF pass.extended THEN StitchGrow(segments, pass) ELSE pass

\* Variant of StitchFrom that seeds a polyline from every segment, used or not.
RECURSIVE StitchFromAny(_, _, _, _)
StitchFromAny(segments, i, used, stitched) ==
    IF i > Len(segments) THEN stitched
    ELSE LET seed == [polyline |-> <<segments[i].start, segments[i].end>>,
                      used |-> [used EXCEPT ![i] = TRUE],
                      extended |-> TRUE,
                      passes |-> 0]
             grown == StitchGrow(segments, seed)
         IN  StitchFromAny(segments, i + 1, grown.used, Append(stitched, grown.polyline))

\* for (let i = 0; i < segments.length; i++) { ... }
RECURSIVE StitchFrom(_, _, _, _)
StitchFrom(segments, i, used, stitched) ==
    IF i > Len(segments) THEN stitched
    ELSE IF used[i] THEN StitchFrom(segments, i + 1, used, stitched)
    ELSE LET seed == [polyline |-> <<segments[i].start, segments[i].end>>,
                      used |-> [used EXCEPT ![i] = TRUE],
                      extended |-> TRUE,
                      passes |-> 0]
             grown == StitchGrow(segments, seed)
         IN  StitchFrom(segments, i + 1, grown.used, Append(stitched, grown.polyline))

stitchSegments(segments) ==
    StitchFrom(segments, 1, [i \in 1..Len(segments) |-> FALSE], <<>>)

\* The same run, keeping what the function holds at each stitched.push(polyline):
\* the polyline, the indices flagged used and the passes the while loop made
\* for it.
RECURSIVE StitchLogFrom(_, _, _, _)
StitchLogFrom(segments, i, used, log) ==
    IF i > Len(segments) THEN log
    ELSE IF used[i] THEN StitchLogFrom(segments, i + 1, used, log)
    ELSE LET seed == [polyline |-> <<segments[i].start, segments[i].end>>,
                      used |-> [used EXCEPT ![i] = TRUE],
                      extended |-> TRUE,
                      passes |-> 0]
             grown == StitchGrow(segments, seed)
         IN  StitchLogFrom(segments, i + 1, grown.used,
                           Append(log, [polyline |-> grown.polyline,
                                        used |-> {j \in 1..Len(segments) : grown.used[j]},
                                        passes |-> grown.passes]))

StitchLog(segments) ==
    StitchLogFrom(segments, 1, [i \in 1..Len(segments) |-> FALSE], <<>>)

----------------------------------------------------------------------------
(* ClipPlane.getContourPlaneIntersection *)

\* Variant of the loop body that takes a pair only when the two distances have
\* strictly opposite signs.
CrossingOfPairStrict(start, end, secondPlane) ==
    LET distStart == DistanceToPoint(secondPlane, start)
        distEnd == DistanceToPoint(secondPlane, end)
        hit == IntersectLine(secondPlane, start, end)
    IN  IF (distStart > 0 /\ distEnd < 0) \/ (distStart < 0 /\ distEnd > 0)
        THEN IF IsSome(hit) THEN <<TheValue(hit)>> ELSE <<>>
        ELSE <<>>

\* The loop body for the pair (contourPoints[i], contourPoints[i + 1]):
\* the crossing points it pushes (none or one).
CrossingOfPair(start, end, secondPlane) ==
    LET distStart == DistanceToPoint(secondPlane, start)
        distEnd == DistanceToPoint(secondPlane, end)
        hit == IntersectLine(secondPlane, start, end)
    IN  IF (distStart >= 0 /\ distEnd <= 0) \/ (distStart <= 0 /\ distEnd >= 0)
        THEN IF IsSome(hit) THEN <<TheValue(hit)>> ELSE <<>>
        ELSE <<>>

RECURSIVE ContourCrossings(_, _, _)
ContourCrossings(contourPoints, secondPlane, i) ==
    IF i > Len(contourPoints) - 1 THEN <<>>
    ELSE CrossingOfPair(contourPoints[i], contourPoints[i + 1], secondPlane)
         \o ContourCrossings(contourPoints, secondPlane, i + 1)

\* contourPoints is Some(polyline) or Undefined.  Reading contourPoints.length
\* throws a TypeError when contourPoints is undefined: [threw |-> TRUE].
getContourPlaneIntersection(contourPoints, secondPlane) ==
    IF ~IsSome(contourPoints)
    THEN [threw |-> TRUE, value |-> <<>>]
    ELSE [threw |-> FALSE,
          value |-> ContourCrossings(TheValue(contourPoints), secondPlane, 1)]

----------------------------------------------------------------------------
(* ClipPlane.getIntersectionContour *)

\* A mesh is [tris |-> sequence of triangles <<a, b, c>> in local space,
\*            offset |-> t], its matrixWorld being the translation by t.

\* 1e-5, the distance under which two of three edge hits are merged, as its inverse
DedupTolInv == 100000

\* maxLeafTris of the MeshBVH
MaxLeafTris == 3

Min2(a, b) == IF a < b THEN a ELSE b

Max2(a, b) == IF a > b THEN a ELSE b

\* The axis-aligned box of a non-empty sequence of triangles (a BVH node's bounds).
RECURSIVE BoxOfPoints(_)
BoxOfPoints(ps) ==
    IF Len(ps) = 1
    THEN [min |-> ps[1].n, max |-> ps[1].n]
    ELSE LET b == BoxOfPoints(Tail(ps))
             p == ps[1].n
         IN  [min |-> <<Min2(p[1], b.min[1]), Min2(p[2], b.min[2]), Min2(p[3], b.min[3])>>,
              max |-> <<Max2(p[1], b.max[1]), Max2(p[2], b.max[2]), Max2(p[3], b.max[3])>>]

RECURSIVE Flatten(_)
Flatten(ss) == IF ss = <<>> THEN <<>> ELSE ss[1] \o Flatten(Tail(ss))

BoxOfTris(tris) == BoxOfPoints(Flatten(tris))

\* Variant of IntersectsBox that takes normal . p at the min and max corners of
\* the box, whatever the signs of the normal's components.
IntersectsBoxCorners(plane, box) ==
    /\ Dot3(plane.normal, box.min) <= -plane.constant
    /\ Dot3(plane.normal, box.max) >= -plane.constant

\* localPlane.intersectsBox(box): the least and greatest value of normal . p over
\* the box lie on either side of -constant.
IntersectsBox(plane, box) ==
    LET lo(i) == IF plane.normal[i] > 0 THEN plane.normal[i] * box.min[i]
                                        ELSE plane.normal[i] * box.max[i]
        hi(i) == IF plane.normal[i] > 0 THEN plane.normal[i] * box.max[i]
                                        ELSE plane.normal[i] * box.min[i]
        min == lo(1) + lo(2) + lo(3)
        max == hi(1) + hi(2) + hi(3)
    IN  min <= -plane.constant /\ max >= -plane.constant

\* boundsTree.shapecast: the triangles that reach intersectsTriangle, in visiting
\* order.  A node holds a run of triangles and their box; a node whose box fails
\* intersectsBounds is pruned with everything below it; a node of more than
\* MaxLeafTris triangles is split in two.
RECURSIVE Shapecast(_, _)
Shapecast(tris, localPlane) ==
    IF tris = <<>> THEN <<>>
    ELSE IF ~IntersectsBox(localPlane, BoxOfTris(tris)) THEN <<>>
    ELSE IF Len(tris) <= MaxLeafTris THEN tris
    ELSE LET h == Len(tris) \div 2
         IN  Shapecast(SubSeq(tris, 1, h), localPlane)
             \o Shapecast(SubSeq(tris, h + 1, Len(tris)), localPlane)

\* The raw edge hits of one triangle: one point per edge that intersectLine hits.
EdgeHits(tri, localPlane) ==
    LET hit(s, e) == IntersectLine(localPlane, s, e)
    IN  hit(tri[1], tri[2]) \o hit(tri[2], tri[3]) \o hit(tri[3], tri[1])

\* if (points.length === 3) { ... splice ... }
Dedup(points) ==
    IF Len(points) # 3 THEN points
    ELSE IF DistanceLessThan(points[1], points[2], DedupTolInv)
    THEN <<points[1], points[3]>>
    ELSE IF DistanceLessThan(points[2], points[3], DedupTolInv)
    THEN <<points[1], points[2]>>
    ELSE <<points[2], points[3]>>

\* intersectsTriangle: the segments (none or one, in world space) one triangle adds.
IntersectsTriangle(tri, localPlane, offset) ==
    LET points == Dedup(EdgeHits(tri, localPlane))
    IN  IF Len(points) = 2
        THEN <<[start |-> Translate(points[1], offset),
                end |-> Translate(points[2], offset)]>>
        ELSE <<>>

\* Variant of EnsureBoundsTree that constructs a tree on every call.
RebuildBoundsTree(current, serial) == Some(serial)

\* if (!mesh.geometry.boundsTree) mesh.geometry.boundsTree = new MeshBVH(...):
\* the tree the geometry holds after the guard, a tree being known by the
\* serial number of the call that constructed it.
EnsureBoundsTree(current, serial) ==
    IF ~IsSome(current) THEN Some(serial) ELSE current

RECURSIVE ContourSegments(_, _, _)
ContourSegments(tris, localPlane, offset) ==
    IF tris = <<>> THEN <<>>
    ELSE IntersectsTriangle(tris[1], localPlane, offset)
         \o ContourSegments(Tail(tris), localPlane, offset)

\* stichedContour[0]: the first polyline, or Undefined when there is none.
FirstOrUndefined(stitched) ==
    IF Len(stitched) = 0 THEN Undefined ELSE Some(stitched[1])

getIntersectionContour(mesh, plane) ==
    LET localPlane == PlaneApplyTranslation(plane, Negate3(mesh.offset))
        contourSegments ==
            ContourSegments(Shapecast(mesh.tris, localPlane), localPlane, mesh.offset)
    IN  FirstOrUndefined(stitchSegments(contourSegments))

----------------------------------------------------------------------------
(* Utils: rotation angles *)

\* Math.atan2(y * sqrt(k), x) for integers y, x and k > 0, as the direction it
\* names: lowest terms, and k = 1 where sqrt(k) does not matter.
\* Math.atan2(0, 0) is 0, the direction (0, 1).
Atan2K(y, x, k) ==
    LET g == Gcd(Abs(y), Abs(x))
    IN  IF y = 0 /\ x = 0 THEN [s |-> 0, c |-> 1, k |-> 1]
        ELSE IF y = 0 THEN [s |-> 0, c |-> Sign(x), k |-> 1]
        ELSE IF x = 0 THEN [s |-> Sign(y), c |-> 0, k |-> 1]
        ELSE [s |-> y \div g, c |-> x \div g, k |-> k]

Atan2(y, x) == Atan2K(y, x, 1)

\* Variant of angleToEqualizeZ with the two arguments of atan2 exchanged.
AngleToEqualizeZSwapped(p1, p2) ==
    Atan2(p1.n[2] * p2.d - p2.n[2] * p1.d, p2.n[3] * p1.d - p1.n[3] * p2.d)

\* Math.atan2(z2 - z1, y1 - y2), for two vectors with the same k: both
\* differences are taken over the common positive factor p1.d * p2.d * sqrt(k).
angleToEqualizeZ(p1, p2) ==
    Atan2(p2.n[3] * p1.d - p1.n[3] * p2.d, p1.n[2] * p2.d - p2.n[2] * p1.d)

\* Math.atan2(x1 - x2, y1 - y2), for two vectors with the same k:
\* x1 - x2 = A / (d1 d2) and y1 - y2 = B / (d1 d2 sqrt(k)), so the angle is
\* atan2(A sqrt(k), B).
angleZToEqualizeX(p1, p2) ==
    Atan2K(p1.n[1] * p2.d - p2.n[1] * p1.d, p1.n[2] * p2.d - p2.n[2] * p1.d, p1.k)

\* v.applyAxisAngle(new THREE.Vector3(1, 0, 0), angle) for an angle atan2(s, c):
\* y' = y cos - z sin, z' = y sin + z cos with cos = c / r, sin = s / r,
\* r = sqrt(s^2 + c^2); x is unchanged.
ApplyAxisAngleX(v, angle) ==
    [n |-> <<v.n[1],
             v.n[2] * angle.c - v.n[3] * angle.s,
             v.n[2] * angle.s + v.n[3] * angle.c>>,
     d |-> v.d,
     k |-> v.k * (angle.s * angle.s + angle.c * angle.c)]

\* a / (da sqrt(ka)) = b / (db sqrt(kb))
SameScalar(a, da, ka, b, db, kb) ==
    /\ Sign(a) = Sign(b)
    /\ a * a * db * db * kb = b * b * da * da * ka

\* The two vectors have the same coordinates.
SameCoords(p, q) ==
    /\ p.n[1] * q.d = q.n[1] * p.d
    /\ SameScalar(p.n[2], p.d, p.k, q.n[2], q.d, q.k)
    /\ SameScalar(p.n[3], p.d, p.k, q.n[3], q.d, q.k)

\* The two vectors have the same z coordinate.
SameZ(p, q) == SameScalar(p.n[3], p.d, p.k, q.n[3], q.d, q.k)

\* new THREE.Vector3().crossVectors(a, b)
CrossVectors(a, b) ==
    <<a[2] * b[3] - a[3] * b[2], a[3] * b[1] - a[1] * b[3], a[1] * b[2] - a[2] * b[1]>>

LengthSq(a) == Dot3(a, a)

\* direction.normalize(), as the direction in lowest terms
Normalize(a) ==
    LET g == Gcd(Gcd(Abs(a[1]), Abs(a[2])), Abs(a[3]))
    IN  <<a[1] \div g, a[2] \div g, a[3] \div g>>

\* Utils.getPlanesIntersectionLine(plane1, plane2): Null, or Some of the point
\* and the direction; no statement of it can throw for two planes.
getPlanesIntersectionLine(plane1, plane2) ==
    LET direction == CrossVectors(plane1.normal, plane2.normal)
        n1 == plane1.normal
        n2 == plane2.normal
        c1 == -plane1.constant
        c2 == -plane2.constant
        n1xn2 == CrossVectors(n1, n2)
        temp1 == CrossVectors(n1xn2, n2)
        temp2 == CrossVectors(n1, n1xn2)
    IN  IF LengthSq(direction) = 0
        THEN [threw |-> FALSE, value |-> Null]
        ELSE [threw |-> FALSE,
              value |-> Some([point |-> Reduce(temp1[1] * c1 + temp2[1] * c2,
                                               temp1[2] * c1 + temp2[2] * c2,
                                               temp1[3] * c1 + temp2[3] * c2,
                                               LengthSq(n1xn2)),
                              direction |-> Normalize(direction)])]

----------------------------------------------------------------------------
(* The scene *)

\* The local geometry of both meshes: a closed tetrahedron, faces outward.
TetraTris ==
    << <<V(0, 0, 0), V(0, 6, 0), V(6, 0, 0)>>,
       <<V(0, 0, 0), V(6, 0, 0), V(0, 0, 6)>>,
       <<V(0, 0, 0), V(0, 0, 6), V(0, 6, 0)>>,
       <<V(6, 0, 0), V(0, 6, 0), V(0, 0, 6)>> >>

MeshNames == {"mesh_0", "mesh_1"}

\* gltf.scene's meshes, as glbSceneRef.current.getObjectByName(name) finds them
Meshes ==
    [m \in MeshNames |->
        [tris |-> TetraTris,
         offset |-> IF m = "mesh_0" THEN <<0, 0, 0>> ELSE <<10, 0, 0>>]]

\* face.normal in world space: (b - a) x (c - a), in lowest terms instead of
\* unit length (the matrixWorld of a mesh is a translation).
FaceNormal(tri) ==
    LET u == <<tri[2].n[1] - tri[1].n[1], tri[2].n[2] - tri[1].n[2], tri[2].n[3] - tri[1].n[3]>>
        w == <<tri[3].n[1] - tri[1].n[1], tri[3].n[2] - tri[1].n[2], tri[3].n[3] - tri[1].n[3]>>
        cx == u[2] * w[3] - u[3] * w[2]
        cy == u[3] * w[1] - u[1] * w[3]
        cz == u[1] * w[2] - u[2] * w[1]
        g == Gcd(Gcd(Abs(cx), Abs(cy)), Abs(cz))
    IN  <<cx \div g, cy \div g, cz \div g>>

\* The midpoints the probe ray of handlePointerDown can yield for a mesh:
\* lattice points strictly inside it.
AnchorPoints(m) ==
    LET t == Meshes[m].offset
    IN  {<<t[1] + 1, t[2] + 1, t[3] + 1>>, <<t[1] + 1, t[2] + 1, t[3] + 2>>}

PlaneNames == {"plane1", "plane2"}

Objects == {"glbScene", "group"}

Axes == {"x", "y", "z"}

AngleZero == [s |-> 0, c |-> 1, k |-> 1]

AnglePi == [s |-> 0, c |-> -1, k |-> 1]

----------------------------------------------------------------------------
(* Time *)

\* duration: 1 (second) of the gsap tween, in ms
TweenMs == 1000

\* the delay of the setTimeout that starts Phase 2, in ms
TimerDelayMs == 1000

\* Clock steps per timer delay, and the horizon in timer delays.
StepsPerDelay == 2

Horizon == 3

StepMs == TimerDelayMs \div StepsPerDelay

MaxNowMs == Horizon * TimerDelayMs

\* Apply presses that reach the contour computation.
MaxApply == 2

----------------------------------------------------------------------------
(* State *)

VARIABLES
    \* App (React state, refs and what the browser holds for it)
    activePlane,        \* "none" (null), "plane1" or "plane2"
    planeSelections,    \* plane name -> Null or Some([meshName, normal, centroid])
    selectedForPlane,   \* mesh name -> mesh.userData.selectedForPlane, "none" if unset
    aligned,            \* the `aligned` state: FALSE (null) or TRUE
    points,             \* the `points` state: Undefined or Some(array of heap indices)
    heap,               \* the Vector3 objects the landmark arrays refer to
    effectPending,      \* the effect on [aligned] is due to run
    closure,            \* Null, or Some of what the running effect captured
    rotation,           \* object -> axis -> rotation value
    tweens,             \* the gsap tweens in flight
    timers,             \* the deadlines of the pending setTimeout callbacks
    now,                \* the clock, ms
    thrown,             \* the handlers that have thrown
    mounted,            \* the component tree is mounted
    boundsTree,         \* mesh name -> geometry.boundsTree has been built
    applyCount,         \* Apply presses that reached the contour computation
    applyLog,           \* what the last such Apply did
    callbackRuns,       \* times the callback given to animateRotation has run
    phase1Read,         \* the coordinates angleToEqualizeZ read, once it has
    phase2Read,         \* the coordinates angleZToEqualizeX read, once it has
    animations,         \* the animateRotation calls made so far, in order
    \* stitchSegments on its own
    segments, shuffled, stitched, stitchedShuffled,
    finalized,          \* what stitchSegments held each time it finalized a polyline
    \* getIntersectionContour / getContourPlaneIntersection on their own
    cutPlane, secondPlane, contour, crossings,
    \* the Phase-1 angle on its own
    p1, p2, angleX, rotated,
    \* the shapecast of getIntersectionContour on its own
    castTris, castPlane, candidates,
    \* intersectsTriangle on its own
    tri, triPlane, edgePoints, keptPoints,
    \* the boundsTree of each mesh over a sequence of getIntersectionContour calls
    tree, builds, calls, lastCall,
    \* getPlanesIntersectionLine on its own
    linePlane1, linePlane2, lineResult

appVars == <<activePlane, planeSelections, selectedForPlane, aligned, points, heap,
             effectPending, closure, rotation, tweens, timers, now, thrown, mounted,
             boundsTree, applyCount, applyLog, callbackRuns, phase1Read, phase2Read,
             animations>>

stitchVars == <<segments, shuffled, stitched, stitchedShuffled, finalized>>

contourVars == <<cutPlane, secondPlane, contour, crossings>>

angleVars == <<p1, p2, angleX, rotated>>

castVars == <<castTris, castPlane, candidates>>

triVars == <<tri, triPlane, edgePoints, keptPoints>>

treeVars == <<tree, builds, calls, lastCall>>

lineVars == <<linePlane1, linePlane2, lineResult>>

moreVars == <<castVars, triVars, treeVars, lineVars>>

pureVars == <<stitchVars, contourVars, angleVars, moreVars>>

vars == <<appVars, pureVars>>

\* A rotation value at rest at angle a.
AtRest(a) == [value |-> a, toward |-> a, elapsed |-> TweenMs]

NoApply == [threw |-> FALSE, first |-> Undefined, secondRun |-> FALSE,
            second |-> Undefined, landmarks |-> Undefined, built |-> {}]

\* The App after mounting: gltf.scene.rotation.y = Math.PI, nothing selected.
AppInit ==
    /\ activePlane = "none"
    /\ planeSelections = [pl \in PlaneNames |-> Null]
    /\ selectedForPlane = [m \in MeshNames |-> "none"]
    /\ aligned = FALSE
    /\ points = Undefined
    /\ heap = <<>>
    /\ effectPending = FALSE
    /\ closure = Null
    /\ rotation = [o \in Objects |-> [a \in Axes |->
                     IF o = "glbScene" /\ a = "y" THEN AtRest(AnglePi) ELSE AtRest(AngleZero)]]
    /\ tweens = {}
    /\ timers = {}
    /\ now = 0
    /\ thrown = {}
    /\ mounted = TRUE
    /\ boundsTree = [m \in MeshNames |-> FALSE]
    /\ applyCount = 0
    /\ applyLog = NoApply
    /\ callbackRuns = 0
    /\ phase1Read = Null
    /\ phase2Read = Null
    /\ animations = <<>>

StitchIdle ==
    /\ segments = <<>>
    /\ shuffled = <<>>
    /\ stitched = Null
    /\ stitchedShuffled = Null
    /\ finalized = Null

ContourIdle ==
    /\ cutPlane = Null
    /\ secondPlane = Null
    /\ contour = Null
    /\ crossings = Null

AngleIdle ==
    /\ p1 = Null
    /\ p2 = Null
    /\ angleX = Null
    /\ rotated = Null

CastIdle ==
    /\ castTris = <<>>
    /\ castPlane = Null
    /\ candidates = Null

TriIdle ==
    /\ tri = Null
    /\ triPlane = Null
    /\ edgePoints = Null
    /\ keptPoints = Null

TreeIdle ==
    /\ tree = <<>>
    /\ builds = <<>>
    /\ calls = <<>>
    /\ lastCall = Null

LineIdle ==
    /\ linePlane1 = Null
    /\ linePlane2 = Null
    /\ lineResult = Null

MoreIdle == CastIdle /\ TriIdle /\ TreeIdle /\ LineIdle

----------------------------------------------------------------------------
(* Utils.animateRotation *)

\* gsap.to(object.rotation, {[axis]: angle, duration: 1}) starts a tween at the
\* current time; then the callback, when one is given, is called at once.
\* The result: the tweens in flight and the number of callback calls made.
animateRotation(tw, object, angle, axis, hasCallback, t) ==
    [tweens |-> tw \cup {[object |-> object, axis |-> axis, to |-> angle, start |-> t]},
     call |-> [object |-> object, axis |-> axis],
     calls |-> IF hasCallback THEN 1 ELSE 0]

\* The rotation values after a gsap tick at time t: a tween that has run for
\* TweenMs leaves its property at the target; a younger one leaves it in between.
TweenOn(tw, o, a) == {w \in tw : w.object = o /\ w.axis = a}

RenderAt(rot, tw, t) ==
    [o \in Objects |-> [a \in Axes |->
        IF TweenOn(tw, o, a) = {} THEN rot[o][a]
        ELSE LET w == CHOOSE w \in TweenOn(tw, o, a) : TRUE
             IN  IF t - w.start >= TweenMs
                 THEN AtRest(w.to)
                 ELSE [value |-> rot[o][a].value, toward |-> w.to,
                       elapsed |-> t - w.start]]]

Finished(tw, t) == {w \in tw : t - w.start >= TweenMs}

----------------------------------------------------------------------------
(* App: picking *)

\* Variant of SelectPlane that arms the plane whether or not it is selected.
SelectPlaneAlways(pl) ==
    /\ mounted /\ ~effectPending
    /\ activePlane' = pl
    /\ UNCHANGED <<planeSelections, selectedForPlane, aligned, points, heap,
                   effectPending, closure, rotation, tweens, timers, now, thrown,
                   mounted, boundsTree, applyCount, applyLog, callbackRuns,
                   phase1Read, phase2Read,
                   animations, pureVars>>

\* if (!planeSelections[pl]) setActivePlane(pl)
SelectPlane(pl) ==
    /\ mounted /\ ~effectPending
    /\ ~IsSome(planeSelections[pl])
    /\ activePlane' = pl
    /\ UNCHANGED <<planeSelections, selectedForPlane, aligned, points, heap,
                   effectPending, closure, rotation, tweens, timers, now, thrown,
                   mounted, boundsTree, applyCount, applyLog, callbackRuns,
                   phase1Read, phase2Read,
                   animations, pureVars>>

handleSelectPlane1 == SelectPlane("plane1")

handleSelectPlane2 == SelectPlane("plane2")

onPointerMissed ==
    /\ mounted /\ ~effectPending
    /\ activePlane' = "none"
    /\ UNCHANGED <<planeSelections, selectedForPlane, aligned, points, heap,
                   effectPending, closure, rotation, tweens, timers, now, thrown,
                   mounted, boundsTree, applyCount, applyLog, callbackRuns,
                   phase1Read, phase2Read,
                   animations, pureVars>>

\* The number of intersections the probe ray reports: 0, 1, or 2 for two or more.
ProbeHits == 0..2

\* handlePointerDown on mesh m; the event has a face (number f of the mesh) or
\* none; the probe ray reports `hits` intersections whose midpoint is `anchor`.
handlePointerDown(m, hasFace, f, hits, anchor) ==
    /\ mounted /\ ~effectPending
    /\ activePlane # "none"
    /\ selectedForPlane[m] = "none"
    /\ selectedForPlane' = [selectedForPlane EXCEPT ![m] = activePlane]
    /\ IF ~hasFace
       THEN UNCHANGED <<planeSelections, activePlane, thrown>>
       ELSE IF hits < 2
       THEN \* points is null, or points[1] is undefined: a TypeError
            /\ thrown' = thrown \cup {"handlePointerDown"}
            /\ UNCHANGED <<planeSelections, activePlane>>
       ELSE \* onSelect = handleMeshSelect
            /\ planeSelections' =
                  [planeSelections EXCEPT ![activePlane] =
                      Some([meshName |-> m,
                            normal |-> FaceNormal(Meshes[m].tris[f]),
                            centroid |-> anchor])]
            /\ activePlane' = "none"
            /\ UNCHANGED thrown
    /\ UNCHANGED <<aligned, points, heap, effectPending, closure, rotation, tweens,
                   timers, now, mounted, boundsTree, applyCount, applyLog,
                   callbackRuns, phase1Read, phase2Read,
                   animations, pureVars>>

PointerDown ==
    \E m \in MeshNames, hasFace \in BOOLEAN, hits \in ProbeHits :
        \E f \in 1..Len(Meshes[m].tris), anchor \in AnchorPoints(m) :
            handlePointerDown(m, hasFace, f, hits, anchor)

----------------------------------------------------------------------------
(* App: Apply, the alignment effect, the timer and the frames *)

\* Variant of EffectDue for an effect that runs after every render.
EffectDueAlways(before, after) == TRUE

\* useEffect(..., [aligned]): the effect is due after a render in which
\* `aligned` has changed.
EffectDue(before, after) == before # after

\* Variant of RetryNeeded that retries whenever the first attempt found points.
RetryWhenFound(point) == Len(point) # 0

\* if (point.length == 0)
RetryNeeded(point) == Len(point) = 0

\* The branches of handleApply after the first attempt: which attempts run, what
\* they return and what setPoints receives.  built: the meshes whose boundsTree
\* getIntersectionContour has been asked for.  (attempt2 is only evaluated where
\* the code runs the second attempt.)
ApplyBranches(attempt1, attempt2, meshName1, meshName2) ==
    IF attempt1.threw
    THEN [threw |-> TRUE, first |-> Undefined, secondRun |-> FALSE,
          second |-> Undefined, landmarks |-> Undefined, built |-> {meshName1}]
    ELSE IF RetryNeeded(attempt1.value)
    THEN IF attempt2.threw
         THEN [threw |-> TRUE, first |-> Some(attempt1.value), secondRun |-> TRUE,
               second |-> Undefined, landmarks |-> Undefined,
               built |-> {meshName1, meshName2}]
         ELSE [threw |-> FALSE, first |-> Some(attempt1.value), secondRun |-> TRUE,
               second |-> Some(attempt2.value), landmarks |-> Some(attempt2.value),
               built |-> {meshName1, meshName2}]
    ELSE [threw |-> FALSE, first |-> Some(attempt1.value), secondRun |-> FALSE,
          second |-> Undefined, landmarks |-> Some(attempt1.value),
          built |-> {meshName1}]

\* The body of handleApply once both planes are selected.
ApplyOutcome(plane1, plane2) ==
    LET planeInstance1 == SetFromNormalAndCoplanarPoint(plane1.normal, plane1.centroid)
        planeInstance2 == SetFromNormalAndCoplanarPoint(plane2.normal, plane2.centroid)
    IN  ApplyBranches(
            getContourPlaneIntersection(
                getIntersectionContour(Meshes[plane1.meshName], planeInstance1),
                planeInstance2),
            getContourPlaneIntersection(
                getIntersectionContour(Meshes[plane2.meshName], planeInstance2),
                planeInstance1),
            plane1.meshName, plane2.meshName)

handleApply ==
    /\ mounted /\ ~effectPending
    /\ activePlane' = "none"
    /\ IF IsSome(planeSelections["plane1"]) /\ IsSome(planeSelections["plane2"])
       THEN \E out \in {ApplyOutcome(TheValue(planeSelections["plane1"]),
                                      TheValue(planeSelections["plane2"]))} :
                /\ applyCount < MaxApply
                /\ applyCount' = applyCount + 1
                /\ applyLog' = out
                /\ boundsTree' = [m \in MeshNames |-> boundsTree[m] \/ m \in out.built]
                /\ IF out.threw
                   THEN /\ thrown' = thrown \cup {"handleApply"}
                        /\ UNCHANGED <<aligned, points, heap, effectPending>>
                   ELSE \* setAligned(true); setPoints(point)
                        /\ aligned' = TRUE
                        /\ effectPending' = EffectDue(aligned, TRUE)
                        /\ heap' = heap \o TheValue(out.landmarks)
                        /\ points' = Some([i \in 1..Len(TheValue(out.landmarks)) |->
                                              Len(heap) + i])
                        /\ UNCHANGED thrown
       ELSE UNCHANGED <<applyCount, applyLog, boundsTree, thrown, aligned, points,
                        heap, effectPending>>
    /\ UNCHANGED <<planeSelections, selectedForPlane, closure, rotation, tweens,
                   timers, now, mounted, callbackRuns, phase1Read, phase2Read,
                   animations, pureVars>>

\* Variant of RotateInPlace that rotates copies and leaves the vectors as they were.
RotateCopies(h, ids, angle) == h

\* updatedPoints = [...points] copies the array, not the vectors: applyAxisAngle
\* then rotates the very objects points[0] and points[1] refer to.
RotateInPlace(h, ids, angle) ==
    [i \in 1..Len(h) |->
        IF i = ids[1] \/ i = ids[2] THEN ApplyAxisAngleX(h[i], angle) ELSE h[i]]

\* useEffect(..., [aligned])
AlignEffect ==
    /\ mounted /\ effectPending
    /\ effectPending' = FALSE
    /\ IF ~IsSome(points) \/ ~aligned
       THEN UNCHANGED <<points, heap, closure, tweens, timers, thrown, mounted,
                        callbackRuns, phase1Read, animations>>
       ELSE LET ids == TheValue(points)
            IN  IF Len(ids) < 2
                THEN \* points[0] or points[1] is undefined: angleToEqualizeZ throws
                     \* a TypeError; an error in an effect unmounts the tree
                     /\ thrown' = thrown \cup {"useEffect"}
                     /\ mounted' = FALSE
                     /\ UNCHANGED <<points, heap, closure, tweens, timers,
                                    callbackRuns, phase1Read, animations>>
                ELSE LET angle == angleToEqualizeZ(heap[ids[1]], heap[ids[2]])
                         anim == animateRotation(tweens, "glbScene", angle, "x", TRUE, now)
                     IN  /\ phase1Read' = Some(<<heap[ids[1]], heap[ids[2]]>>)
                         /\ tweens' = anim.tweens
                         /\ animations' = Append(animations, anim.call)
                         /\ callbackRuns' = callbackRuns + anim.calls
                         \* the callback
                         /\ heap' = RotateInPlace(heap, ids, angle)
                         /\ points' = Some(ids)
                         /\ timers' = timers \cup {now + TimerDelayMs}
                         /\ closure' = Some([points |-> ids, angleX |-> angle])
                         /\ UNCHANGED <<thrown, mounted>>
    /\ UNCHANGED <<activePlane, planeSelections, selectedForPlane, aligned, rotation,
                   now, boundsTree, applyCount, applyLog, phase2Read,
                   pureVars>>

\* The setTimeout callback of the effect
Phase2Timer ==
    \E deadline \in timers :
        /\ now >= deadline
        /\ timers' = timers \ {deadline}
        /\ LET ids == TheValue(closure).points
               angleZ == angleZToEqualizeX(heap[ids[1]], heap[ids[2]])
               anim == animateRotation(tweens, "group", angleZ, "z", FALSE, now)
           IN  /\ phase2Read' = Some(<<heap[ids[1]], heap[ids[2]]>>)
               /\ tweens' = anim.tweens
               /\ animations' = Append(animations, anim.call)
               /\ callbackRuns' = callbackRuns + anim.calls
        /\ UNCHANGED <<activePlane, planeSelections, selectedForPlane, aligned, points,
                       heap, effectPending, closure, rotation, now, thrown, mounted,
                       boundsTree, applyCount, applyLog, phase1Read,
                   pureVars>>

\* A rendered frame: the gsap ticker advances every tween to the current time.
Frame ==
    /\ tweens # {}
    /\ rotation' = RenderAt(rotation, tweens, now)
    /\ tweens' = tweens \ Finished(tweens, now)
    /\ UNCHANGED <<activePlane, planeSelections, selectedForPlane, aligned, points,
                   heap, effectPending, closure, timers, now, thrown, mounted,
                   boundsTree, applyCount, applyLog, callbackRuns, phase1Read,
                   phase2Read,
                   animations, pureVars>>

\* Time passes (only observed while a tween or a timer is pending).
Tick ==
    /\ tweens # {} \/ timers # {}
    /\ now + StepMs <= MaxNowMs
    /\ now' = now + StepMs
    /\ UNCHANGED <<activePlane, planeSelections, selectedForPlane, aligned, points,
                   heap, effectPending, closure, rotation, tweens, timers, thrown,
                   mounted, boundsTree, applyCount, applyLog, callbackRuns,
                   phase1Read, phase2Read,
                   animations, pureVars>>

Init == AppInit /\ StitchIdle /\ ContourIdle /\ AngleIdle /\ MoreIdle

Next ==
    \/ handleSelectPlane1
    \/ handleSelectPlane2
    \/ onPointerMissed
    \/ PointerDown
    \/ handleApply
    \/ AlignEffect
    \/ Phase2Timer
    \/ Frame
    \/ Tick

Spec == Init /\ [][Next]_vars

----------------------------------------------------------------------------
(* Claims about the alignment sequence (checked under Spec) *)

\* The tween that Phase 1 started on glbScene.rotation.x has run to its end.
Phase1TweenFinished ==
    /\ IsSome(closure)
    /\ TweenOn(tweens, "glbScene", "x") = {}
    /\ rotation["glbScene"]["x"] = AtRest(TheValue(closure).angleX)

Phase1Started == IsSome(phase1Read)

Phase2Started == IsSome(phase2Read)

\* C1: animateRotation calls the callback it is given exactly once, and only
\* after the tween toward the target angle has finished: whenever the callback
\* has run, it has run once and the tween it was given with is over.
C1_CallbackOnlyAfterTween ==
    /\ callbackRuns <= 1
    /\ callbackRuns = 1 => Phase1TweenFinished

\* C2: Phase 2 (the rotation about z) never starts before the Phase-1 rotation
\* (about x) has finished its tween, whatever the order of the timer and the
\* frames.
C2_Phase2AfterPhase1 == Phase2Started => Phase1TweenFinished

\* C3 (as stated): the coordinates angleZToEqualizeX reads in the delayed
\* callback are those the points had when the Phase-1 angle was computed.
C3_Phase2ReadsOriginal ==
    Phase2Started =>
        \A i \in 1..2 : SameCoords(TheValue(phase2Read)[i], TheValue(phase1Read)[i])

\* C3 (amended): the coordinates angleZToEqualizeX reads in the delayed callback
\* are those of the Phase-1 points rotated about x by angleX.
C3_Phase2ReadsRotated ==
    Phase2Started =>
        \A i \in 1..2 :
            SameCoords(TheValue(phase2Read)[i],
                       ApplyAxisAngleX(TheValue(phase1Read)[i], TheValue(closure).angleX))

\* Phase 2 has read its points, and the rotation by angleX had moved one of them.
C3_Witness ==
    /\ Phase2Started
    /\ \E i \in 1..2 : ~SameCoords(TheValue(phase2Read)[i], TheValue(phase1Read)[i])

\* The last Apply ran both attempts and both returned zero points.
BothAttemptsEmpty ==
    /\ applyCount > 0
    /\ applyLog.first = Some(<<>>)
    /\ applyLog.secondRun
    /\ applyLog.second = Some(<<>>)

InitialRotation ==
    [o \in Objects |-> [a \in Axes |->
        IF o = "glbScene" /\ a = "y" THEN AtRest(AnglePi) ELSE AtRest(AngleZero)]]

\* C4: when both landmark attempts return zero points, neither Apply nor the
\* effect it triggers throws, no rotation animation is started and the rotation
\* of the assembly stays as it was.  Stated for the first Apply of a session,
\* before which nothing has been animated.
C4_NoLandmarksNoError ==
    (BothAttemptsEmpty /\ applyCount = 1) =>
        /\ "handleApply" \notin thrown
        /\ "useEffect" \notin thrown
        /\ tweens = {}
        /\ rotation = InitialRotation

\* C6: the second attempt runs if and only if the first returned zero points;
\* when the first returns at least one point, those points are what setPoints
\* receives (and what the `points` state holds when the effect is due) and the
\* second attempt is not run.
C6_RetryIffFirstEmpty ==
    applyCount > 0 =>
        /\ applyLog.secondRun <=> applyLog.first = Some(<<>>)
        /\ (IsSome(applyLog.first) /\ applyLog.first # Some(<<>>)) =>
              /\ ~applyLog.secondRun
              /\ applyLog.landmarks = applyLog.first
              /\ effectPending =>
                    [i \in 1..Len(TheValue(points)) |-> heap[TheValue(points)[i]]]
                        = TheValue(applyLog.first)

\* An Apply whose first attempt found nothing and whose second found landmarks.
C6_Witness ==
    /\ applyCount > 0
    /\ applyLog.first = Some(<<>>)
    /\ applyLog.secondRun
    /\ IsSome(applyLog.second)
    /\ Len(TheValue(applyLog.second)) >= 2
    /\ applyLog.landmarks = applyLog.second

\* An Apply whose first attempt found landmarks.
FirstAttemptFound ==
    /\ applyCount > 0
    /\ IsSome(applyLog.first)
    /\ applyLog.first # Some(<<>>)
    /\ effectPending

\* C14: both phases rotate the same object: the object driven about x in
\* Phase 1 is the object driven about z in Phase 2, and each phase drives one
\* axis of it.
C14_SameObjectBothPhases ==
    Phase2Started =>
        /\ Len(animations) = 2
        /\ animations[1].axis = "x"
        /\ animations[2].axis = "z"
        /\ animations[1].object = animations[2].object

\* C15: a selection, once set by a pick, is never changed or cleared, whatever
\* is clicked, picked, missed or applied afterwards.
C15_SelectionNeverEdited ==
    [][\A pl \in PlaneNames :
          IsSome(planeSelections[pl]) => planeSelections'[pl] = planeSelections[pl]]_vars

\* Both planes are selected, Apply has been pressed and a plane is armed again.
C15_Witness ==
    /\ IsSome(planeSelections["plane1"])
    /\ IsSome(planeSelections["plane2"])
    /\ applyCount > 0
    /\ \E m \in MeshNames : selectedForPlane[m] = "plane1"

\* The animateRotation calls made so far about the given axis.
AnimationsAbout(axis) == {i \in 1..Len(animations) : animations[i].axis = axis}

\* C19: the rotation sequence is started at most once per session: however
\* often Apply is pressed after `aligned` was set, and despite the setPoints of
\* the Phase-1 callback, there is at most one Phase-1 and one Phase-2 animation.
C19_SequenceStartedOnce ==
    /\ Cardinality(AnimationsAbout("x")) <= 1
    /\ Cardinality(AnimationsAbout("z")) <= 1
    /\ Len(animations) <= 2
    /\ callbackRuns <= 1

\* Apply was pressed again after the sequence began, and both phases have run.
C19_Witness ==
    /\ applyCount >= 2
    /\ aligned
    /\ Len(animations) = 2
    /\ ~effectPending

\* C20: after a pick a mesh carries selectedForPlane = P only if
\* planeSelections[P] records that mesh: the mark and the selection are made
\* together or not at all, also when the event has no face or the probe ray
\* returns fewer than two intersections.
C20_MarkedOnlyIfSelected ==
    \A m \in MeshNames :
        selectedForPlane[m] # "none" =>
            /\ IsSome(planeSelections[selectedForPlane[m]])
            /\ TheValue(planeSelections[selectedForPlane[m]]).meshName = m

----------------------------------------------------------------------------
(* stitchSegments on its own: any list of segments, in any order *)

\* Longest segment list tried.
MaxSegs == 3

\* Endpoints: the corners of a lattice square.
StitchPoints == {V(x, y, 0) : x, y \in 0..1}

SegPool == {[start |-> a, end |-> b] : a, b \in StitchPoints}

SegLists == UNION {[1..n -> SegPool] : n \in 0..MaxSegs}

OrdersOf(n) == {f \in [1..n -> 1..n] : \A i, j \in 1..n : f[i] = f[j] => i = j}

Permuted(list, perm) == [i \in 1..Len(list) |-> list[perm[i]]]

\* The caller hands the same segments over in another order.
Shuffle ==
    /\ stitched = Null
    /\ \E perm \in OrdersOf(Len(segments)) : shuffled' = Permuted(segments, perm)
    /\ UNCHANGED <<segments, stitched, stitchedShuffled, finalized>>
    /\ UNCHANGED <<appVars, contourVars, angleVars, moreVars>>

\* stitchSegments runs on the list as given and on the list as reordered.
Stitch ==
    /\ stitched = Null
    /\ stitched' = Some(stitchSegments(segments))
    /\ stitchedShuffled' = Some(stitchSegments(shuffled))
    /\ finalized' = Some(StitchLog(shuffled))
    /\ UNCHANGED <<segments, shuffled>>
    /\ UNCHANGED <<appVars, contourVars, angleVars, moreVars>>

StitchInit ==
    /\ segments \in SegLists
    /\ shuffled = segments
    /\ stitched = Null
    /\ stitchedShuffled = Null
    /\ finalized = Null
    /\ AppInit /\ ContourIdle /\ AngleIdle /\ MoreIdle

StitchNext == Shuffle \/ Stitch

SpecStitch == StitchInit /\ [][StitchNext]_vars

(* stitchSegments on the cut of a closed convex mesh: one closed cycle *)

\* Longest cycle tried.
MaxCycle == 4

\* Distinct lattice points in convex position.
CyclePoint(i) == V(i, i * i, 0)

\* The n segments of the cycle CyclePoint(1) .. CyclePoint(n), those in
\* `flipped` with their end points exchanged.
CycleSegments(n, flipped) ==
    [i \in 1..n |->
        LET a == CyclePoint(i)
            b == CyclePoint(IF i = n THEN 1 ELSE i + 1)
        IN  IF i \in flipped THEN [start |-> b, end |-> a] ELSE [start |-> a, end |-> b]]

CycleInit ==
    /\ \E n \in 3..MaxCycle : \E flipped \in SUBSET (1..n) :
          segments = CycleSegments(n, flipped)
    /\ shuffled = segments
    /\ stitched = Null
    /\ stitchedShuffled = Null
    /\ finalized = Null
    /\ AppInit /\ ContourIdle /\ AngleIdle /\ MoreIdle

SpecCycle == CycleInit /\ [][StitchNext]_vars

Reverse(q) == [i \in 1..Len(q) |-> q[Len(q) + 1 - i]]

\* The polylines of a result, each up to reversal.
PolylineSet(result) == {{result[i], Reverse(result[i])} : i \in 1..Len(result)}

\* C7: stitchSegments is permutation-invariant: the list as given and the same
\* list in any other order yield the same set of polylines, polylines being
\* compared as point sequences up to reversal.
C7_PermutationInvariant ==
    IsSome(stitched) =>
        PolylineSet(TheValue(stitched)) = PolylineSet(TheValue(stitchedShuffled))

\* C8: for one closed cycle of n segments, in any order and with any
\* orientation of the segments, stitchSegments returns exactly one polyline; it
\* is closed (its last point is its first), and it has n vertices: n + 1 points,
\* the first one repeated at the end.
C8_CycleOnePolyline ==
    IsSome(stitchedShuffled) =>
        LET result == TheValue(stitchedShuffled)
            n == Len(segments)
        IN  /\ Len(result) = 1
            /\ SamePoint(result[1][1], Last(result[1]))
            /\ Len(result[1]) = n + 1
            /\ Cardinality({result[1][i] : i \in 1..Len(result[1])}) = n

\* A square stitched from its four segments given out of order.
C8_Witness ==
    /\ IsSome(stitchedShuffled)
    /\ Len(segments) = 4
    /\ shuffled # segments
    /\ Len(TheValue(stitchedShuffled)) = 1

----------------------------------------------------------------------------
(* getIntersectionContour and getContourPlaneIntersection on their own *)

\* Longest polyline handed to getContourPlaneIntersection directly.
MaxContour == 3

AxisNormals == {<<1, 0, 0>>, <<0, 1, 0>>, <<0, 0, 1>>}

\* Cutting planes: axis-aligned, through the mesh (levels 1, 2) or clear of
\* its bounding box on either side (levels -1, 7).
CutLevels == {-1, 1, 2, 7}

CutPlanes ==
    {SetFromNormalAndCoplanarPoint(nrm, <<c, c, c>>) : nrm \in AxisNormals, c \in CutLevels}

SecondLevels == {1, 2}

SecondPlanes ==
    {SetFromNormalAndCoplanarPoint(nrm, <<c, c, c>>) : nrm \in AxisNormals, c \in SecondLevels}
    \cup {SetFromNormalAndCoplanarPoint(<<1, 1, 0>>, <<c, 0, 0>>) : c \in SecondLevels}

ContourPool == {V(x, y, 0) : x \in 0..2, y \in 0..1}

Polylines == UNION {[1..n -> ContourPool] : n \in 0..MaxContour}

\* The contour of a mesh under the cutting plane, as handleApply obtains it.
ExtractContour ==
    /\ contour = Null
    /\ IsSome(cutPlane)
    /\ contour' = Some(getIntersectionContour(Meshes[TheValue(cutPlane).mesh],
                                               TheValue(cutPlane).plane))
    /\ UNCHANGED <<cutPlane, secondPlane, crossings>>
    /\ UNCHANGED <<appVars, stitchVars, angleVars, moreVars>>

\* A caller passes a polyline of its own.
GivenContour ==
    /\ contour = Null
    /\ \E polyline \in Polylines : contour' = Some(Some(polyline))
    /\ cutPlane' = Null
    /\ UNCHANGED <<secondPlane, crossings>>
    /\ UNCHANGED <<appVars, stitchVars, angleVars, moreVars>>

IntersectContour ==
    /\ IsSome(contour)
    /\ crossings = Null
    /\ crossings' = Some(getContourPlaneIntersection(TheValue(contour), TheValue(secondPlane)))
    /\ UNCHANGED <<cutPlane, secondPlane, contour>>
    /\ UNCHANGED <<appVars, stitchVars, angleVars, moreVars>>

ContourInit ==
    /\ \E m \in MeshNames : \E plane \in CutPlanes :
          cutPlane = Some([mesh |-> m, plane |-> plane])
    /\ \E plane \in SecondPlanes : secondPlane = Some(plane)
    /\ contour = Null
    /\ crossings = Null
    /\ AppInit /\ StitchIdle /\ AngleIdle /\ MoreIdle

ContourNext == ExtractContour \/ GivenContour \/ IntersectContour

SpecContour == ContourInit /\ [][ContourNext]_vars

\* Every vertex of every triangle of the mesh lies strictly on one side of the
\* plane: the plane intersects no triangle.
NoTriangleCrossed(mesh, plane) ==
    LET dists == {DistanceToPoint(plane, Translate(mesh.tris[i][j], mesh.offset)) :
                      i \in 1..Len(mesh.tris), j \in 1..3}
    IN  (\A dist \in dists : dist > 0) \/ (\A dist \in dists : dist < 0)

\* C5: when the cutting plane intersects no triangle of the mesh,
\* getIntersectionContour followed by getContourPlaneIntersection on its result
\* raises no error and yields zero landmark points.
C5_EmptyCutNoError ==
    (/\ IsSome(crossings)
     /\ IsSome(cutPlane)
     /\ NoTriangleCrossed(Meshes[TheValue(cutPlane).mesh], TheValue(cutPlane).plane))
    => (/\ ~TheValue(crossings).threw
        /\ Len(TheValue(crossings).value) = 0)

OnPlane(p, plane) == DistanceToPoint(plane, p) = 0

\* The signed distances of a and b have differing signs or include a zero.
Straddles(a, b, plane) ==
    LET da == DistanceToPoint(plane, a)
        db == DistanceToPoint(plane, b)
    IN  Sign(da) # Sign(db) \/ da = 0 \/ db = 0

\* The point the pair (a, b) reports: a when a lies on the plane, b when only b
\* does, and otherwise the point of the open segment at distance zero, which
\* divides it in the ratio of the two distances.
ExpectedCrossing(a, b, plane) ==
    LET da == Abs(DistanceToPoint(plane, a))
        db == Abs(DistanceToPoint(plane, b))
    IN  IF da = 0 THEN a
        ELSE IF db = 0 THEN b
        ELSE Reduce(db * a.n[1] + da * b.n[1], db * a.n[2] + da * b.n[2],
                    db * a.n[3] + da * b.n[3], db * a.d + da * b.d)

\* How many of the first i consecutive pairs of the polyline straddle the plane.
StraddlingUpTo(c, plane, i) ==
    Cardinality({j \in 1..i : Straddles(c[j], c[j + 1], plane)})

\* One point per straddling pair and none for any other, in traversal order,
\* nothing removed.
OnePointPerStraddlingPair(c, plane, r) ==
    /\ Len(r) = StraddlingUpTo(c, plane, Len(c) - 1)
    /\ \A i \in 1..(Len(c) - 1) :
          Straddles(c[i], c[i + 1], plane) =>
              r[StraddlingUpTo(c, plane, i)] = ExpectedCrossing(c[i], c[i + 1], plane)

\* The polyline and the plane of a finished call, and what it returned.
CrossingsDone ==
    /\ IsSome(crossings)
    /\ ~TheValue(crossings).threw

\* C9 as stated: one crossing point per consecutive pair whose distances have
\* differing signs or include a zero, none for the others, in traversal order
\* without deduplication; hence an interior vertex lying exactly on the plane
\* is reported twice, once by each adjacent edge.
C9_VertexReportedTwice ==
    CrossingsDone =>
        LET c == TheValue(TheValue(contour))
            plane == TheValue(secondPlane)
            r == TheValue(crossings).value
        IN  /\ OnePointPerStraddlingPair(c, plane, r)
            /\ \A i \in 2..(Len(c) - 1) :
                  OnPlane(c[i], plane) =>
                      /\ r[StraddlingUpTo(c, plane, i - 1)] = c[i]
                      /\ r[StraddlingUpTo(c, plane, i)] = c[i]

\* C9, amended: one crossing point per straddling pair, none for the others,
\* in traversal order without deduplication; an interior vertex lying exactly
\* on the plane is reported by the edge that starts at it, and by the edge that
\* ends at it unless that edge's start point lies on the plane too, in which
\* case that edge reports its own start point.
C9_VertexReportedByEachEdge ==
    CrossingsDone =>
        LET c == TheValue(TheValue(contour))
            plane == TheValue(secondPlane)
            r == TheValue(crossings).value
        IN  /\ OnePointPerStraddlingPair(c, plane, r)
            /\ \A i \in 2..(Len(c) - 1) :
                  OnPlane(c[i], plane) =>
                      /\ r[StraddlingUpTo(c, plane, i - 1)] =
                            (IF OnPlane(c[i - 1], plane) THEN c[i - 1] ELSE c[i])
                      /\ r[StraddlingUpTo(c, plane, i)] = c[i]

\* A finished call on a three-point polyline whose first two points are
\* distinct and lie on the plane, the third off it.
C9_Witness ==
    /\ CrossingsDone
    /\ LET c == TheValue(TheValue(contour))
           plane == TheValue(secondPlane)
       IN  /\ Len(c) = 3
           /\ OnPlane(c[1], plane) /\ OnPlane(c[2], plane) /\ ~OnPlane(c[3], plane)
           /\ c[1] # c[2]
           /\ Len(TheValue(crossings).value) = 2

----------------------------------------------------------------------------
(* angleToEqualizeZ and the rotation about x on their own *)

\* Landmark coordinates range over 0..AngleGrid.
AngleGrid == 2

AnglePoints == {V(x, y, z) : x, y, z \in 0..AngleGrid}

ComputeAngle ==
    /\ angleX = Null
    /\ angleX' = Some(angleToEqualizeZ(TheValue(p1), TheValue(p2)))
    /\ UNCHANGED <<p1, p2, rotated>>
    /\ UNCHANGED <<appVars, stitchVars, contourVars, moreVars>>

\* Both points turned about the x axis by the angle, as points.map(p =>
\* p.applyAxisAngle(new THREE.Vector3(1, 0, 0), angleX)) turns them.
Rotate ==
    /\ IsSome(angleX)
    /\ rotated = Null
    /\ rotated' = Some(<<ApplyAxisAngleX(TheValue(p1), TheValue(angleX)),
                         ApplyAxisAngleX(TheValue(p2), TheValue(angleX))>>)
    /\ UNCHANGED <<p1, p2, angleX>>
    /\ UNCHANGED <<appVars, stitchVars, contourVars, moreVars>>

AngleInit ==
    /\ \E a \in AnglePoints : p1 = Some(a)
    /\ \E b \in AnglePoints : p2 = Some(b)
    /\ angleX = Null
    /\ rotated = Null
    /\ AppInit /\ StitchIdle /\ ContourIdle /\ MoreIdle

AngleNext == ComputeAngle \/ Rotate

SpecAngle == AngleInit /\ [][AngleNext]_vars

\* C10: for all landmark points p1, p2 the Phase-1 angle is
\* atan2(z2 - z1, y1 - y2); rotating both points about the x axis by that angle
\* makes their z coordinates equal; and for p1 = (0,0,0), p2 = (0,1,1) the
\* angle is atan2(1, -1).
C10_AngleEqualizesZ ==
    LET a == TheValue(p1)
        b == TheValue(p2)
    IN  /\ IsSome(angleX) =>
              TheValue(angleX) = Atan2(b.n[3] - a.n[3], a.n[2] - b.n[2])
        /\ IsSome(rotated) => SameZ(TheValue(rotated)[1], TheValue(rotated)[2])
        /\ (IsSome(angleX) /\ a = V(0, 0, 0) /\ b = V(0, 1, 1)) =>
              TheValue(angleX) = Atan2(1, -1)

\* The worked example, rotated: p1 = (0,0,0), p2 = (0,1,1).
C10_Witness ==
    /\ IsSome(rotated)
    /\ TheValue(p1) = V(0, 0, 0)
    /\ TheValue(p2) = V(0, 1, 1)
    /\ TheValue(rotated)[2] # TheValue(p2)

----------------------------------------------------------------------------
(* The shapecast of getIntersectionContour on its own *)

\* Plane constants range over -MaxCastConstant..MaxCastConstant.
MaxCastConstant == 7

\* A closed octahedron, for a tree of three levels.
OctaTris ==
    << <<V(3, 0, 0), V(0, 3, 0), V(0, 0, 3)>>,
       <<V(0, 3, 0), V(-3, 0, 0), V(0, 0, 3)>>,
       <<V(-3, 0, 0), V(0, -3, 0), V(0, 0, 3)>>,
       <<V(0, -3, 0), V(3, 0, 0), V(0, 0, 3)>>,
       <<V(0, 3, 0), V(3, 0, 0), V(0, 0, -3)>>,
       <<V(-3, 0, 0), V(0, 3, 0), V(0, 0, -3)>>,
       <<V(0, -3, 0), V(-3, 0, 0), V(0, 0, -3)>>,
       <<V(3, 0, 0), V(0, -3, 0), V(0, 0, -3)>> >>

\* The orders in which the tree may hold n triangles: any order of a few, the
\* rotations of many.
CastOrders(n) ==
    IF n <= 4 THEN OrdersOf(n)
    ELSE {[i \in 1..n |-> ((i + r - 1) % n) + 1] : r \in 0..(n - 1)}

CastNormals == {nrm \in (-1..1) \X (-1..1) \X (-1..1) : nrm # <<0, 0, 0>>}

CastPlanes ==
    {[normal |-> nrm, constant |-> c] :
        nrm \in CastNormals, c \in (-MaxCastConstant)..MaxCastConstant}

\* mesh.geometry.boundsTree.shapecast with the callbacks of getIntersectionContour
Cast ==
    /\ candidates = Null
    /\ candidates' = Some(Shapecast(castTris, TheValue(castPlane)))
    /\ UNCHANGED <<castTris, castPlane>>
    /\ UNCHANGED <<appVars, stitchVars, contourVars, angleVars, triVars, treeVars, lineVars>>

CastInit ==
    /\ \E tris \in {TetraTris, OctaTris} : \E perm \in CastOrders(Len(tris)) :
          castTris = Permuted(tris, perm)
    /\ \E plane \in CastPlanes : castPlane = Some(plane)
    /\ candidates = Null
    /\ AppInit /\ StitchIdle /\ ContourIdle /\ AngleIdle
    /\ TriIdle /\ TreeIdle /\ LineIdle

CastNext == Cast

SpecCast == CastInit /\ [][CastNext]_vars

\* The plane meets the closed triangle: its vertices are not all strictly on
\* one side.
TrulyIntersects(t, plane) ==
    /\ \E j \in 1..3 : DistanceToPoint(plane, t[j]) >= 0
    /\ \E j \in 1..3 : DistanceToPoint(plane, t[j]) <= 0

\* C11: every triangle the local plane truly intersects reaches the edge test:
\* the culling by intersectsBounds prunes no node that holds such a triangle.
C11_NoFalseNegatives ==
    IsSome(candidates) =>
        \A i \in 1..Len(castTris) :
            TrulyIntersects(castTris[i], TheValue(castPlane)) =>
                \E c \in 1..Len(TheValue(candidates)) :
                    TheValue(candidates)[c] = castTris[i]

\* A shapecast that pruned some triangles and kept the ones the plane meets.
C11_Witness ==
    /\ IsSome(candidates)
    /\ Len(TheValue(candidates)) < Len(castTris)
    /\ Len(castTris) > MaxLeafTris
    /\ \E i \in 1..Len(castTris) : TrulyIntersects(castTris[i], TheValue(castPlane))

----------------------------------------------------------------------------
(* The boundsTree of each mesh over a sequence of getIntersectionContour calls *)

\* Calls made in one run.
MaxCalls == 3

CallsMade == calls["mesh_0"] + calls["mesh_1"]

\* getIntersectionContour(mesh, plane), with what it does to
\* mesh.geometry.boundsTree.
CallContour ==
    /\ CallsMade < MaxCalls
    /\ \E m \in MeshNames, plane \in CutPlanes :
          \E after \in {EnsureBoundsTree(tree[m], CallsMade + 1)} :
              /\ tree' = [tree EXCEPT ![m] = after]
              /\ builds' = [builds EXCEPT ![m] = IF after = tree[m] THEN @ ELSE @ + 1]
              /\ calls' = [calls EXCEPT ![m] = @ + 1]
              /\ lastCall' = Some([mesh |-> m, plane |-> plane,
                                   contour |-> getIntersectionContour(Meshes[m], plane)])
    /\ UNCHANGED <<appVars, stitchVars, contourVars, angleVars, castVars, triVars, lineVars>>

TreeInit ==
    /\ tree = [m \in MeshNames |-> Null]
    /\ builds = [m \in MeshNames |-> 0]
    /\ calls = [m \in MeshNames |-> 0]
    /\ lastCall = Null
    /\ AppInit /\ StitchIdle /\ ContourIdle /\ AngleIdle
    /\ CastIdle /\ TriIdle /\ LineIdle

TreeNext == CallContour

SpecTree == TreeInit /\ [][TreeNext]_vars

\* C12: over any sequence of getIntersectionContour calls on a mesh, the tree
\* is constructed exactly once, on the first call, and every later call leaves
\* the cached mesh.geometry.boundsTree as it is.
C12_BuiltOnce ==
    /\ [](\A m \in MeshNames :
             IF calls[m] = 0
             THEN builds[m] = 0 /\ ~IsSome(tree[m])
             ELSE builds[m] = 1 /\ IsSome(tree[m]))
    /\ [][\A m \in MeshNames : IsSome(tree[m]) => tree'[m] = tree[m]]_vars

\* A mesh is cut a second time, after its tree was built by an earlier call.
C12_Witness ==
    \E m \in MeshNames :
        /\ calls[m] >= 2
        /\ builds[m] = 1
        /\ IsSome(lastCall) /\ TheValue(lastCall).mesh = m

----------------------------------------------------------------------------
(* stitchSegments on every segment list, each run on its own *)

StitchAllNext == Stitch

SpecStitchAll == StitchInit /\ [][StitchAllNext]_vars

RECURSIVE TotalPoints(_)
TotalPoints(result) ==
    IF result = <<>> THEN 0 ELSE Len(result[1]) + TotalPoints(Tail(result))

\* The indices flagged used when polyline k was seeded.
UsedBefore(log, k) == IF k = 1 THEN {} ELSE log[k - 1].used

\* C13: stitchSegments returns on every segment list: the while loop of a
\* polyline makes at most one pass more than the segments it attaches, each
\* pass but the last attaching at least one.  On return every segment has been
\* consumed by exactly one polyline, once: each polyline holds one point more
\* than the segments it consumed, no segment is left unused, and the points of
\* all polylines number the segments plus the polylines.
C13_EverySegmentOnce ==
    IsSome(finalized) =>
        LET log == TheValue(finalized)
            result == TheValue(stitchedShuffled)
            n == Len(shuffled)
        IN  /\ result = [k \in 1..Len(log) |-> log[k].polyline]
            /\ \A k \in 1..Len(log) :
                  /\ UsedBefore(log, k) \subseteq log[k].used
                  /\ Cardinality(log[k].used \ UsedBefore(log, k)) = Len(log[k].polyline) - 1
                  /\ log[k].passes >= 1
                  /\ log[k].passes <= Len(log[k].polyline) - 1
            /\ (IF n = 0 THEN log = <<>> ELSE Last(log).used = 1..n)
            /\ TotalPoints(result) = n + Len(result)

\* Three segments stitched into two polylines, one of them grown over two passes.
C13_Witness ==
    /\ IsSome(finalized)
    /\ Len(shuffled) = 3
    /\ Len(TheValue(finalized)) = 2
    /\ \E k \in 1..2 : TheValue(finalized)[k].passes = 2

\* The first and last point of a polyline.
Ends(polyline) == {polyline[1], Last(polyline)}

\* C18: each polyline is grown to a fixpoint: when it is finalized, no segment
\* still unused has an end point within tolerance of the polyline's first or
\* last point; and so, points coinciding exactly, no end of a later polyline
\* is an end of an earlier one.
C18_GrownToFixpoint ==
    IsSome(finalized) =>
        LET log == TheValue(finalized)
        IN  /\ \A k \in 1..Len(log) :
                  \A j \in (1..Len(shuffled)) \ log[k].used :
                      \A e \in Ends(log[k].polyline) :
                          /\ ~SamePoint(e, shuffled[j].start)
                          /\ ~SamePoint(e, shuffled[j].end)
            /\ \A k, l \in 1..Len(log) :
                  k < l => Ends(log[k].polyline) \cap Ends(log[l].polyline) = {}

\* A polyline finalized after two passes while another segment was still unused.
C18_Witness ==
    /\ IsSome(finalized)
    /\ Len(TheValue(finalized)) = 2
    /\ TheValue(finalized)[1].passes = 2
    /\ Len(TheValue(finalized)[1].polyline) = 3
    /\ TheValue(finalized)[1].used # 1..Len(shuffled)

----------------------------------------------------------------------------
(* intersectsTriangle on its own *)

\* Triangle corners have x, y in 0..TriGrid and z in 0..1.
TriGrid == 1

TriPoints == {V(x, y, z) : x, y \in 0..TriGrid, z \in 0..1}

\* (b - a) x (c - a) is not zero: the three corners span a triangle.
Spanning(a, b, c) ==
    LET u == <<b.n[1] - a.n[1], b.n[2] - a.n[2], b.n[3] - a.n[3]>>
        w == <<c.n[1] - a.n[1], c.n[2] - a.n[2], c.n[3] - a.n[3]>>
    IN  <<u[2] * w[3] - u[3] * w[2], u[3] * w[1] - u[1] * w[3],
          u[1] * w[2] - u[2] * w[1]>> # <<0, 0, 0>>

Triangles == {t \in TriPoints \X TriPoints \X TriPoints : Spanning(t[1], t[2], t[3])}

TriPlanes ==
    {[normal |-> nrm, constant |-> c] :
        nrm \in AxisNormals \cup {<<1, 1, 0>>, <<1, 1, 1>>, <<1, -1, 0>>}, c \in -2..0}

\* The edge loop and the deduplication of intersectsTriangle for one triangle.
TestTriangle ==
    /\ edgePoints = Null
    /\ \E hits \in {EdgeHits(TheValue(tri), TheValue(triPlane))} :
          /\ edgePoints' = Some(hits)
          /\ keptPoints' = Some(Dedup(hits))
    /\ UNCHANGED <<tri, triPlane>>
    /\ UNCHANGED <<appVars, stitchVars, contourVars, angleVars, castVars, treeVars, lineVars>>

TriInit ==
    /\ \E t \in Triangles : tri = Some(t)
    /\ \E plane \in TriPlanes : triPlane = Some(plane)
    /\ edgePoints = Null
    /\ keptPoints = Null
    /\ AppInit /\ StitchIdle /\ ContourIdle /\ AngleIdle
    /\ CastIdle /\ TreeIdle /\ LineIdle

TriNext == TestTriangle

SpecTri == TriInit /\ [][TriNext]_vars

\* q without its i-th element.
Without(q, i) == SubSeq(q, 1, i - 1) \o SubSeq(q, i + 1, Len(q))

\* C17: whenever all three edges of a triangle report an intersection, exactly
\* one of the three points is discarded, two remain, and the discarded point
\* lies within 1e-5 of one of the two that are kept -- also for a triangle whose
\* three corners all lie on the plane.
C17_DiscardsNearDuplicate ==
    (IsSome(edgePoints) /\ Len(TheValue(edgePoints)) = 3) =>
        LET hits == TheValue(edgePoints)
            kept == TheValue(keptPoints)
        IN  /\ Len(kept) = 2
            /\ \E i \in 1..3 :
                  /\ kept = Without(hits, i)
                  /\ \E k \in 1..2 : DistanceLessThan(hits[i], kept[k], DedupTolInv)

\* The edges [a, b], [b, c], [c, a] whose endpoints are on opposite sides of the
\* plane or of which an endpoint lies on the plane.
EdgesMeetingPlane(t, plane) ==
    {e \in {<<1, 2>>, <<2, 3>>, <<3, 1>>} :
        Sign(DistanceToPoint(plane, t[e[1]])) * Sign(DistanceToPoint(plane, t[e[2]])) <= 0}

\* C22: for every triangle and plane the edge loop collects 0, 2 or 3 points,
\* never exactly 1, one for each edge whose endpoints are on opposite sides or
\* of which one lies on the plane; after the deduplication two points are left,
\* so one segment is emitted, exactly when some edge reported a point.
C22_NeverOneEdgeHit ==
    IsSome(edgePoints) =>
        /\ Len(TheValue(edgePoints)) \in {0, 2, 3}
        /\ Len(TheValue(edgePoints))
             = Cardinality(EdgesMeetingPlane(TheValue(tri), TheValue(triPlane)))
        /\ Len(TheValue(keptPoints)) = IF Len(TheValue(edgePoints)) = 0 THEN 0 ELSE 2
        /\ Len(IntersectsTriangle(TheValue(tri), TheValue(triPlane), <<0, 0, 0>>))
             = IF Len(TheValue(edgePoints)) = 0 THEN 0 ELSE 1

\* A triangle that touches the plane with one corner only, its other corners
\* strictly on one side: two edges report that same corner.
C22_Witness ==
    /\ IsSome(edgePoints)
    /\ Len(TheValue(edgePoints)) = 2
    /\ TheValue(edgePoints)[1] = TheValue(edgePoints)[2]
    /\ Cardinality({i \in 1..3 :
                      DistanceToPoint(TheValue(triPlane), TheValue(tri)[i]) = 0}) = 1
    /\ Len(TheValue(keptPoints)) = 2

----------------------------------------------------------------------------
(* getPlanesIntersectionLine on its own *)

\* Two normals count as near-parallel when the sine of the angle between them
\* is below 1 / NearParallelInv.
NearParallelInv == 1000

LineNormals ==
    AxisNormals \cup {<<-1, 0, 0>>, <<2, 0, 0>>, <<1, 1, 0>>, <<1000, 1, 0>>, <<1000, 0, -1>>}

LinePlanes == {[normal |-> nrm, constant |-> c] : nrm \in LineNormals, c \in {-2, 0, 1}}

IntersectPlanes ==
    /\ lineResult = Null
    /\ lineResult' = Some(getPlanesIntersectionLine(TheValue(linePlane1), TheValue(linePlane2)))
    /\ UNCHANGED <<linePlane1, linePlane2>>
    /\ UNCHANGED <<appVars, stitchVars, contourVars, angleVars, castVars, triVars, treeVars>>

LineInit ==
    /\ \E plane \in LinePlanes : linePlane1 = Some(plane)
    /\ \E plane \in LinePlanes : linePlane2 = Some(plane)
    /\ lineResult = Null
    /\ AppInit /\ StitchIdle /\ ContourIdle /\ AngleIdle
    /\ CastIdle /\ TriIdle /\ TreeIdle

LineNext == IntersectPlanes

SpecLine == LineInit /\ [][LineNext]_vars

\* |a x b|^2 < |a|^2 |b|^2 / NearParallelInv^2 (zero included)
NearParallel(a, b) ==
    LengthSq(CrossVectors(a, b)) * NearParallelInv * NearParallelInv
        < LengthSq(a) * LengthSq(b)

\* C16: for two planes whose normals are parallel or near-parallel,
\* getPlanesIntersectionLine returns null and raises no error.
C16_NearParallelGivesNull ==
    (/\ IsSome(lineResult)
     /\ NearParallel(TheValue(linePlane1).normal, TheValue(linePlane2).normal))
    => (/\ ~TheValue(lineResult).threw
        /\ TheValue(lineResult).value = Null)

\* normal . p + constant = 0 for a point p = p.n / p.d
PointOnPlane(plane, p) == Dot3(plane.normal, p.n) + plane.constant * p.d = 0

\* C21: for every pair of non-parallel planes the point returned by
\* getPlanesIntersectionLine lies on plane1 and on plane2, and the returned
\* direction is orthogonal to both normals.
C21_LineOnBothPlanes ==
    (/\ IsSome(lineResult)
     /\ LengthSq(CrossVectors(TheValue(linePlane1).normal, TheValue(linePlane2).normal)) # 0)
    => /\ IsSome(TheValue(lineResult).value)
       /\ \E line \in {TheValue(TheValue(lineResult).value)} :
             /\ PointOnPlane(TheValue(linePlane1), line.point)
             /\ PointOnPlane(TheValue(linePlane2), line.point)
             /\ Dot3(line.direction, TheValue(linePlane1).normal) = 0
             /\ Dot3(line.direction, TheValue(linePlane2).normal) = 0

====
